---- MODULE Spec2Model ----
(***************************************************************************)
(* The audio IPC gateway of audio/unix.c: the per-client record            *)
(* (struct unix_client), the request handlers dispatched by client_cb,     *)
(* the backend completion callbacks and the teardown paths.                *)
(*                                                                         *)
(* Every handler runs to completion on the single event-loop thread, so    *)
(* each is one action.  A handler is written as a function from the state  *)
(* record to the state record, statement by statement in the order of the  *)
(* C code; the action commits the result.                                  *)
(*                                                                         *)
(* The AVDTP/A2DP layer, the headset layer and the device registry are     *)
(* not part of unix.c; they are modelled by their contracts.               *)
(***************************************************************************)
EXTENDS Integers, Sequences, FiniteSets, TLC

(* ------------------------------ bounds ------------------------------- *)

\* Two scopes are checked.  The session scope follows one client connection
\* through every request, callback and teardown path.  The pair scope follows
\* two connections that use the media service of the same device.
\*
\* client connections accepted in the session scope (a slot is used once)
NumClients == 1
\* client connections accepted in the pair scope
PairClients == 2
\* client requests, disconnects and backend callbacks handled in one run of
\* the pair scope
PairSteps == 4
\* media stream endpoints of the remote device, seids 1..NumMediaSeids
NumMediaSeids == 2
\* client requests, disconnects and backend callbacks handled in one run of
\* the session scope
MaxSteps == 5
\* requests and backend callbacks handled in one run of the stream scope
StreamSteps == 6
\* requests, disconnects and backend callbacks handled in one run of the
\* shared-endpoint scope
ShareSteps == 8

(* ----------------------------- constants ----------------------------- *)

\* ipc.h BT_A2DP_SEID_RANGE, scaled to the modelled endpoints: seids above it
\* belong to the voice pseudo-endpoint
BT_A2DP_SEID_RANGE == NumMediaSeids

\* the slots for unix_client records
Clients == 1..(IF NumClients > PairClients THEN NumClients ELSE PairClients)
MediaSeids == 1..NumMediaSeids
VoiceSeid == BT_A2DP_SEID_RANGE + 1
\* seid values a request can carry (0 = unspecified)
Seids == 0..VoiceSeid

BT_READ_LOCK == "R"
BT_WRITE_LOCK == "W"
\* lock bit masks, as sets of bits
LockValues == {{BT_WRITE_LOCK}}

\* values of the transport field of a request: SCO, A2DP, or anything else
Transports == {"SCO", "A2DP", "OTHER"}
CodecTypes == {"SBC", "MPEG12", "OTHER"}

(* ------------------------------- state ------------------------------- *)

VARIABLES
    clients,     \* GSList *clients: the live sessions, in accept order
    cl,          \* the unix_client records, by slot
    accepted,    \* number of connections accepted so far
    dev,         \* the one registered audio_device: its roles
    sref,        \* references the gateway holds on the avdtp session
    sepLock,     \* a2dp_sep.locked of the local endpoint matching each seid
    sepStream,   \* whether the endpoint has a configured stream
    hsLock,      \* headset lock bits of the device
    cbs,         \* registered stream-state callbacks
    pending,     \* backend operations started and not yet completed
    nextId,      \* next backend request id
    nextCb,      \* next stream callback id
    trace,       \* what the last handler did, in order
    ub,          \* "none", or the undefined behaviour the process ran into
    exited,      \* unix_exit has run
    steps,       \* handlers run so far
    scope        \* what the environment does in this run (fixed by Init)

vars == <<clients, cl, accepted, dev, sref, sepLock, sepStream, hsLock, cbs,
          pending, nextId, nextCb, trace, ub, exited, steps, scope>>

\* the state as one record, for the handlers
Cur ==
    [clients |-> clients, cl |-> cl, accepted |-> accepted, dev |-> dev,
     sref |-> sref, sepLock |-> sepLock, sepStream |-> sepStream,
     hsLock |-> hsLock, cbs |-> cbs, pending |-> pending, nextId |-> nextId,
     nextCb |-> nextCb, trace |-> trace, ub |-> ub, exited |-> exited,
     steps |-> steps, scope |-> scope]

\* A handler that ran into undefined behaviour leaves no defined state: only
\* the fact, and what it had done until then, are recorded.
Outcome(s) == IF s.ub # "none" THEN [Cur EXCEPT !.ub = s.ub, !.trace = s.trace, !.steps = s.steps] ELSE s

Commit(s) ==
    /\ clients' = Outcome(s).clients
    /\ cl' = Outcome(s).cl
    /\ accepted' = Outcome(s).accepted
    /\ dev' = Outcome(s).dev
    /\ sref' = Outcome(s).sref
    /\ sepLock' = Outcome(s).sepLock
    /\ sepStream' = Outcome(s).sepStream
    /\ hsLock' = Outcome(s).hsLock
    /\ cbs' = Outcome(s).cbs
    /\ pending' = Outcome(s).pending
    /\ nextId' = Outcome(s).nextId
    /\ nextCb' = Outcome(s).nextCb
    /\ trace' = Outcome(s).trace
    /\ ub' = Outcome(s).ub
    /\ exited' = Outcome(s).exited
    /\ steps' = Outcome(s).steps
    /\ scope' = scope

\* g_new0(struct unix_client, 1): every field zero
NewClient ==
    [dev |-> 0, caps |-> <<>>, type |-> "NONE", interface |-> "NULL",
     seid |-> 0, session |-> "NULL", stream |-> 0, sep |-> 0, lock |-> {},
     data_fd |-> 0, req_id |-> 0, cb_id |-> 0, cancel |-> "NULL"]

\* the union d: headset_data.locked shares its storage with a2dp_data.session.
\* A session word is "NULL", "SESS" (the avdtp session), "JUNK_T" (not a
\* pointer; reads as locked) or "JUNK_F" (not a pointer; its locked part is 0).
SessionWords == {"NULL", "SESS", "JUNK_T", "JUNK_F"}

\* hs->locked read through the union
HsLocked(w) == w \in {"SESS", "JUNK_T"}

\* hs->locked = TRUE written through the union
HsSetLocked(w) == "JUNK_T"

\* hs->locked = FALSE written through the union: the words it can leave,
\* depending on the pointer width and the address
HsClearLocked(w) == IF w \in {"NULL"} THEN {"NULL"} ELSE IF w = "JUNK_F" THEN {"JUNK_F"} ELSE {"NULL", "JUNK_F"}

InClients(s, c) == \E i \in 1..Len(s.clients) : s.clients[i] = c

\* a slot whose record has been passed to g_free
Freed(s, c) == c <= s.accepted /\ ~InClients(s, c)

(* --------------------------- handler steps --------------------------- *)

Ev(k, c, t, n, v, b) == [k |-> k, c |-> c, t |-> t, n |-> n, v |-> v, b |-> b]

\* after undefined behaviour nothing more is modelled
Log(s, e) == IF s.ub # "none" THEN s ELSE [s EXCEPT !.trace = Append(@, e)]

Fault(s, kind) == IF s.ub # "none" THEN s ELSE [s EXCEPT !.ub = kind]

Set(s, c, f, v) == IF s.ub # "none" THEN s ELSE [s EXCEPT !.cl[c][f] = v]

\* a read or write of a field of the record of client c
Touch(s, c) == IF Freed(s, c) THEN Fault(Log(s, Ev("touch_freed", c, "", "", 0, <<>>)), "use_after_free") ELSE s

\* use of a session word as a struct avdtp pointer
Deref(s, w) == IF w \in {"JUNK_T", "JUNK_F"} THEN Fault(s, "wild_pointer") ELSE s

RemoveAt(q, c) == SelectSeq(q, LAMBDA x : x # c)

\* unix_ipc_sendmsg: send() on client->sock
unix_ipc_sendmsg(s, c, t, n, v, b) == Log(Touch(s, c), Ev("send", c, t, n, v, b))

\* unix_ipc_error: an ERROR message, unless the client is not in clients
unix_ipc_error(s, c, n, err) == IF ~InClients(s, c) THEN s ELSE unix_ipc_sendmsg(s, c, "ERROR", n, err, <<>>)

\* unix_sendmsg_fd: the fd as ancillary data; ok is sendmsg's success
unix_sendmsg_fd(s, c, ok) == IF ok THEN Log(Touch(s, c), Ev("sendfd", c, "", "", s.cl[c].data_fd, <<>>)) ELSE Touch(s, c)

(* ------------------- the backends, by their contract ------------------ *)

\* avdtp_get: a reference on the session of the address pair, or NULL
avdtp_get(s, c, ok) == IF ok THEN Set(Log([s EXCEPT !.sref = @ + 1], Ev("avdtp_get", c, "", "", 0, <<>>)), c, "session", "SESS") ELSE Set(s, c, "session", "NULL")

\* avdtp_unref(w): drops a reference; NULL is ignored
avdtp_unref(s, c, w) ==
    IF w = "NULL" THEN s
    ELSE IF w # "SESS" THEN Deref(s, w)
    ELSE IF s.sref = 0 THEN Fault(s, "over_release")
    ELSE Log([s EXCEPT !.sref = @ - 1], Ev("avdtp_unref", c, "", "", 0, <<>>))

\* a2dp_sep_unlock(sep, session)
a2dp_sep_unlock(s, c, sep) == Log([s EXCEPT !.sepLock[sep] = FALSE], Ev("sep_unlock", c, "", "", sep, <<>>))

\* avdtp_stream_remove_cb(session, stream, id)
avdtp_stream_remove_cb(s, c, w, id) == Log([s EXCEPT !.cbs = {x \in @ : x.id # id}], Ev("remove_cb", c, "", "", id, <<>>))

\* headset_unlock(dev, lock): clears the bits, if any of them is set
headset_unlock(s, c, lock) == Log([s EXCEPT !.hsLock = IF @ \cap lock = {} THEN @ ELSE @ \ lock], Ev("hs_unlock", c, "", "", 0, lock))

\* client->cancel(dev, id): a2dp_source_cancel or headset_cancel_stream.
\* Cancellation is best effort: eff says whether the request is withdrawn.
Cancel(s, c, eff) ==
    LET id == s.cl[c].req_id
        s1 == Log(s, Ev("cancel", c, "", s.cl[c].cancel, id, <<>>))
    IN  IF s.cl[c].cancel = "NULL" THEN Fault(s, "null_call")
        ELSE IF eff THEN [s1 EXCEPT !.pending = {p \in @ : p.id # id}] ELSE s1

(* ------------------------------ teardown ------------------------------ *)

\* start_close(dev, client, reply); w is what hs->locked = FALSE leaves
start_close(s, c, reply, w) ==
    LET r == s.cl[c]
    IN  CASE r.type = "HEADSET" ->
               LET s1 == IF r.dev # 0 /\ HsLocked(r.session)
                         THEN Set(headset_unlock(s, c, r.lock), c, "session", w)
                         ELSE s
               IN  IF reply THEN unix_ipc_sendmsg(s1, c, "RESPONSE", "BT_CLOSE", "", <<>>) ELSE s1
          [] r.type \in {"SINK", "SOURCE"} ->
               LET s1 == IF r.cb_id > 0 THEN avdtp_stream_remove_cb(s, c, r.session, r.cb_id) ELSE s
                   s2 == IF r.sep # 0 THEN Set(a2dp_sep_unlock(s1, c, r.sep), c, "sep", 0) ELSE s1
                   s3 == IF r.session # "NULL" THEN Set(avdtp_unref(s2, c, r.session), c, "session", "NULL") ELSE s2
               IN  IF reply THEN unix_ipc_sendmsg(s3, c, "RESPONSE", "BT_CLOSE", "", <<>>) ELSE s3
          [] OTHER ->
               IF reply THEN unix_ipc_error(s, c, "BT_STOP_STREAM", "EINVAL") ELSE s

\* a client_free that also closes the transport fd of the record
FreeClosingDataFd(s, c, eff) ==
    LET r == s.cl[c]
        s1 == IF r.req_id # 0 THEN Cancel(s, c, eff) ELSE s
        s2 == IF r.type \in {"SINK", "SOURCE"}
              THEN LET a == IF r.cb_id > 0 THEN avdtp_stream_remove_cb(s1, c, r.session, r.cb_id) ELSE s1
                       b == IF r.sep # 0 THEN a2dp_sep_unlock(a, c, r.sep) ELSE a
                   IN  IF r.session # "NULL" THEN avdtp_unref(b, c, r.session) ELSE b
              ELSE s1
        s3 == Log(s2, Ev("close", c, "sock", "", r.data_fd, <<>>))
        s4 == IF r.data_fd > 0 THEN Log(s3, Ev("close", c, "data_fd", "", r.data_fd, <<>>)) ELSE s3
    IN  IF s4.ub # "none" THEN s4 ELSE [s4 EXCEPT !.cl[c] = NewClient]

\* client_free(client); the one close() is that of client->sock, and the event
\* notes the transport fd the record holds at that moment
client_free(s, c, eff) ==
    LET r == s.cl[c]
        s1 == IF r.req_id # 0 THEN Cancel(s, c, eff) ELSE s
        s2 == IF r.type \in {"SINK", "SOURCE"}
              THEN LET a == IF r.cb_id > 0 THEN avdtp_stream_remove_cb(s1, c, r.session, r.cb_id) ELSE s1
                       b == IF r.sep # 0 THEN a2dp_sep_unlock(a, c, r.sep) ELSE a
                   IN  IF r.session # "NULL" THEN avdtp_unref(b, c, r.session) ELSE b
              ELSE s1
        s3 == Log(s2, Ev("close", c, "sock", "", r.data_fd, <<>>))
    IN  IF s3.ub # "none" THEN s3 ELSE [s3 EXCEPT !.cl[c] = NewClient]

\* the failed: label of client_cb
Destroy(s, c, eff) == client_free([s EXCEPT !.clients = RemoveAt(@, c)], c, eff)

(* ------------------------- the device registry ------------------------ *)

\* whether the registered device offers the interface (NULL: any)
HasInterface(s, iface) ==
    CASE iface = "NULL" -> TRUE
      [] iface = "SINK_IF" -> s.dev.sink
      [] iface = "HEADSET_IF" -> s.dev.headset
      [] OTHER -> FALSE

\* manager_find_device(object, src, dst, interface, connected): known says the
\* object and addresses name the registered device, conn that it is connected
manager_find_device(s, known, iface, connected, conn) == known /\ HasInterface(s, iface) /\ (connected => conn)

\* select_service(dev, interface)
select_service(s, iface, avdtpConn, hsActive) ==
    IF iface = "NULL"
    THEN IF s.dev.sink /\ avdtpConn THEN "SINK"
         ELSE IF s.dev.headset /\ hsActive THEN "HEADSET"
         ELSE IF s.dev.sink THEN "SINK"
         ELSE IF s.dev.headset THEN "HEADSET"
         ELSE "NONE"
    ELSE IF iface = "SINK_IF" /\ s.dev.sink THEN "SINK"
    ELSE IF iface = "HEADSET_IF" /\ s.dev.headset THEN "HEADSET"
    ELSE "NONE"

(* ------------------------- starting backend work ----------------------- *)

\* a backend operation is queued; its completion is delivered later
StartOp(s, op, c, sep) ==
    IF s.ub # "none" THEN s
    ELSE Log([s EXCEPT !.pending = @ \cup {[op |-> op, c |-> c, id |-> s.nextId, sep |-> sep]},
                       !.nextId = @ + 1],
             Ev("start", c, "", op, s.nextId, <<>>))

\* headset_generate_capability + headset_discovery_complete(dev, client)
headset_discovery_complete(s, c, hsActive) ==
    LET s1 == Set(Touch(s, c), c, "req_id", 0)
    IN  unix_ipc_sendmsg(s1, c, "RESPONSE", "BT_GET_CAPABILITIES", "",
                         <<[seid |-> VoiceSeid, configured |-> hsActive, lock |-> s.hsLock]>>)

\* start_discovery(dev, client)
start_discovery(s, c, i) ==
    LET r == s.cl[c]
    IN  CASE r.type = "SINK" ->
               LET s1 == IF r.session = "NULL" THEN avdtp_get(s, c, i.getOk) ELSE s
                   w == s1.cl[c].session
               IN  IF w = "NULL" THEN unix_ipc_error(s1, c, "BT_GET_CAPABILITIES", "EIO")
                   ELSE IF w # "SESS" THEN Deref(s1, w)
                   ELSE IF ~i.opOk THEN unix_ipc_error(s1, c, "BT_GET_CAPABILITIES", "avdtp_discover")
                   ELSE Set(StartOp(s1, "discover", c, 0), c, "dev", 1)
          [] r.type = "HEADSET" ->
               Set(headset_discovery_complete(s, c, i.hsActive), c, "dev", 1)
          [] OTHER ->
               unix_ipc_error(s, c, "BT_GET_CAPABILITIES", "EIO")

\* handle_getcapabilities_req(client, req)
handle_getcapabilities_req(s, c, i) ==
    IF ~i.nul THEN unix_ipc_error(s, c, "BT_GET_CAPABILITIES", "EINVAL")
    ELSE
    LET s1 == CASE i.transport = "SCO" -> Set(s, c, "interface", "HEADSET_IF")
                [] i.transport = "A2DP" -> Set(s, c, "interface", "SINK_IF")
                [] OTHER -> s
        iface == s1.cl[c].interface
    IN  IF ~manager_find_device(s1, i.known, "NULL", FALSE, i.conn)
        THEN unix_ipc_error(s1, c, "BT_GET_CAPABILITIES", "EIO")
        ELSE IF ~(manager_find_device(s1, i.known, iface, TRUE, i.conn)
                  \/ (i.auto /\ manager_find_device(s1, i.known, iface, FALSE, i.conn)))
        THEN unix_ipc_error(s1, c, "BT_GET_CAPABILITIES", "EIO")
        ELSE LET s2 == Set(s1, c, "type", select_service(s1, iface, i.avdtpConn, i.hsActive))
             IN  IF s2.cl[c].type = "NONE"
                 THEN unix_ipc_error(s2, c, "BT_GET_CAPABILITIES", "EIO")
                 ELSE start_discovery(Set(s2, c, "seid", i.seid), c, i)

\* handle_sco_open / handle_a2dp_open / handle_sco_transport and the interface
\* check of handle_a2dp_transport: set the interface once, then insist on it
ClaimInterface(s, c, iface) == IF s.cl[c].interface = "NULL" THEN Set(s, c, "interface", iface) ELSE s

InterfaceOk(s, c, iface) == s.cl[c].interface \in {"NULL", iface}

\* open_complete(dev, client)
open_complete(s, c) == unix_ipc_sendmsg(s, c, "RESPONSE", "BT_OPEN", "", <<>>)

\* headset_lock(dev, lock): fails if one of the bits is held
headset_lock_ok(s, lock) == s.hsLock \cap lock = {}

\* start_open(dev, client)
start_open(s, c, i) ==
    LET r == s.cl[c]
    IN  CASE r.type = "SINK" ->
               LET s1 == IF r.session = "NULL" THEN avdtp_get(s, c, i.getOk) ELSE s
                   w == s1.cl[c].session
               IN  IF w = "NULL" THEN unix_ipc_error(s1, c, "BT_OPEN", "EINVAL")
                   ELSE IF r.sep # 0 THEN unix_ipc_error(s1, c, "BT_OPEN", "EINVAL")
                   ELSE IF w # "SESS" THEN Deref(s1, w)
                   \* avdtp_get_remote_sep: the remote endpoint with that seid
                   ELSE IF r.seid \notin MediaSeids THEN unix_ipc_error(s1, c, "BT_OPEN", "EINVAL")
                   \* a2dp_source_get: the matching local endpoint, unless locked
                   ELSE IF s1.sepLock[r.seid] THEN unix_ipc_error(s1, c, "BT_OPEN", "EINVAL")
                   \* a2dp_sep_lock
                   ELSE LET s2 == Set([s1 EXCEPT !.sepLock[r.seid] = TRUE], c, "sep", r.seid)
                            s3 == Log(s2, Ev("sep_lock", c, "", "", r.seid, <<>>))
                        IN  open_complete(Set(s3, c, "dev", 1), c)
          [] r.type = "HEADSET" ->
               IF HsLocked(r.session) THEN unix_ipc_error(s, c, "BT_OPEN", "EINVAL")
               ELSE IF ~headset_lock_ok(s, r.lock) THEN unix_ipc_error(s, c, "BT_OPEN", "EINVAL")
               ELSE LET s1 == Set([s EXCEPT !.hsLock = @ \cup r.lock], c, "session", HsSetLocked(r.session))
                        s2 == Log(s1, Ev("hs_lock", c, "", "", 0, r.lock))
                    IN  open_complete(Set(s2, c, "dev", 1), c)
          [] OTHER ->
               unix_ipc_error(s, c, "BT_OPEN", "EINVAL")

\* handle_open_req(client, req)
handle_open_req(s, c, i) ==
    IF ~i.nul THEN unix_ipc_error(s, c, "BT_SET_CONFIGURATION", "EINVAL")
    ELSE
    LET want == IF i.seid > BT_A2DP_SEID_RANGE THEN "HEADSET_IF" ELSE "SINK_IF"
    IN  IF ~InterfaceOk(s, c, want) THEN unix_ipc_error(s, c, "BT_SET_CONFIGURATION", "EIO")
        ELSE
        LET s1 == ClaimInterface(s, c, want)
            iface == s1.cl[c].interface
        IN  IF ~manager_find_device(s1, i.known, "NULL", FALSE, TRUE)
            THEN unix_ipc_error(s1, c, "BT_SET_CONFIGURATION", "EIO")
            ELSE IF ~(manager_find_device(s1, i.known, iface, TRUE, i.conn)
                      \/ manager_find_device(s1, i.known, iface, FALSE, i.conn))
            THEN unix_ipc_error(s1, c, "BT_SET_CONFIGURATION", "EIO")
            ELSE start_open(Set(Set(s1, c, "seid", i.seid), c, "lock", i.lock), c, i)

\* handle_a2dp_transport(client, req), after the interface check: the
\* capability list is rebuilt from the codec block
handle_a2dp_transport(s, c, i) ==
    LET s1 == Set(s, c, "caps", <<"MEDIA_TRANSPORT">>)
    IN  IF i.codec \in {"MPEG12", "SBC"} THEN Set(s1, c, "caps", <<"MEDIA_TRANSPORT", i.codec>>) ELSE s1

\* start_config(dev, client)
start_config(s, c, i) ==
    LET r == s.cl[c]
    IN  CASE r.type = "SINK" ->
               LET s1 == IF r.session = "NULL" THEN avdtp_get(s, c, i.getOk) ELSE s
                   w == s1.cl[c].session
               IN  IF w = "NULL" THEN unix_ipc_error(s1, c, "BT_SET_CONFIGURATION", "EIO")
                   ELSE IF r.sep = 0 THEN unix_ipc_error(s1, c, "BT_SET_CONFIGURATION", "EIO")
                   ELSE IF w # "SESS" THEN Deref(s1, w)
                   ELSE IF ~i.opOk THEN unix_ipc_error(Set(s1, c, "cancel", "a2dp"), c, "BT_SET_CONFIGURATION", "EIO")
                   ELSE LET s2 == StartOp(Set(s1, c, "cancel", "a2dp"), "a2dp_config", c, r.sep)
                        IN  Set(Set(s2, c, "req_id", s1.nextId), c, "dev", 1)
          [] r.type = "HEADSET" ->
               IF ~HsLocked(r.session) THEN unix_ipc_error(s, c, "BT_SET_CONFIGURATION", "EIO")
               ELSE IF ~i.opOk THEN unix_ipc_error(Set(s, c, "cancel", "hs"), c, "BT_SET_CONFIGURATION", "EIO")
               ELSE LET s2 == StartOp(Set(s, c, "cancel", "hs"), "hs_config", c, 0)
                    IN  Set(Set(s2, c, "req_id", s.nextId), c, "dev", 1)
          [] OTHER ->
               unix_ipc_error(s, c, "BT_SET_CONFIGURATION", "EIO")

\* a SetConfiguration handler that does not compare the seid of the codec
\* block with the opened seid
ConfigureAnySeid(s, c, i) ==
    LET want == IF i.transport = "SCO" THEN "HEADSET_IF" ELSE "SINK_IF"
    IN  IF i.transport \in {"SCO", "A2DP"} /\ ~InterfaceOk(s, c, want)
        THEN unix_ipc_error(s, c, "BT_SET_CONFIGURATION", "EIO")
        ELSE
        LET s1 == IF i.transport \in {"SCO", "A2DP"} THEN ClaimInterface(s, c, want) ELSE s
            s2 == IF i.transport = "A2DP" THEN handle_a2dp_transport(s1, c, i) ELSE s1
        IN  IF i.transport = "A2DP" /\ i.codec \notin {"MPEG12", "SBC"}
            THEN unix_ipc_error(s2, c, "BT_SET_CONFIGURATION", "EINVAL")
            ELSE IF s2.cl[c].dev = 0 THEN unix_ipc_error(s2, c, "BT_SET_CONFIGURATION", "EIO")
            ELSE start_config(s2, c, i)

\* handle_setconfiguration_req(client, req)
handle_setconfiguration_req(s, c, i) ==
    IF i.seid # s.cl[c].seid THEN unix_ipc_error(s, c, "BT_SET_CONFIGURATION", "EIO")
    ELSE
    LET want == IF i.transport = "SCO" THEN "HEADSET_IF" ELSE "SINK_IF"
    IN  IF i.transport \in {"SCO", "A2DP"} /\ ~InterfaceOk(s, c, want)
        THEN unix_ipc_error(s, c, "BT_SET_CONFIGURATION", "EIO")
        ELSE
        LET s1 == IF i.transport \in {"SCO", "A2DP"} THEN ClaimInterface(s, c, want) ELSE s
            s2 == IF i.transport = "A2DP" THEN handle_a2dp_transport(s1, c, i) ELSE s1
        IN  IF i.transport = "A2DP" /\ i.codec \notin {"MPEG12", "SBC"}
            THEN unix_ipc_error(s2, c, "BT_SET_CONFIGURATION", "EINVAL")
            ELSE IF s2.cl[c].dev = 0 THEN unix_ipc_error(s2, c, "BT_SET_CONFIGURATION", "EIO")
            ELSE start_config(s2, c, i)

\* start_resume(dev, client)
start_resume(s, c, i) ==
    LET r == s.cl[c]
    IN  CASE r.type = "SINK" ->
               LET s1 == IF r.session = "NULL" THEN avdtp_get(s, c, i.getOk) ELSE s
                   w == s1.cl[c].session
               IN  IF w = "NULL" THEN unix_ipc_error(s1, c, "BT_START_STREAM", "EIO")
                   ELSE IF r.sep = 0 THEN unix_ipc_error(s1, c, "BT_START_STREAM", "EIO")
                   ELSE IF w # "SESS" THEN Deref(s1, w)
                   ELSE IF ~i.opOk THEN unix_ipc_error(Set(s1, c, "cancel", "a2dp"), c, "BT_START_STREAM", "EIO")
                   ELSE LET s2 == StartOp(Set(s1, c, "cancel", "a2dp"), "a2dp_resume", c, r.sep)
                        IN  Set(Set(s2, c, "req_id", s1.nextId), c, "dev", 1)
          [] r.type = "HEADSET" ->
               IF ~i.opOk THEN unix_ipc_error(Set(s, c, "cancel", "hs"), c, "BT_START_STREAM", "EIO")
               ELSE LET s2 == StartOp(Set(s, c, "cancel", "hs"), "hs_resume", c, 0)
                    IN  Set(Set(s2, c, "req_id", s.nextId), c, "dev", 1)
          [] OTHER ->
               unix_ipc_error(s, c, "BT_START_STREAM", "EIO")

\* handle_streamstart_req(client, req)
handle_streamstart_req(s, c, i) ==
    IF s.cl[c].dev = 0 THEN unix_ipc_error(s, c, "BT_START_STREAM", "EIO") ELSE start_resume(s, c, i)

\* start_suspend(dev, client): the request id is not recorded
start_suspend(s, c, i) ==
    LET r == s.cl[c]
    IN  CASE r.type = "SINK" ->
               LET s1 == IF r.session = "NULL" THEN avdtp_get(s, c, i.getOk) ELSE s
                   w == s1.cl[c].session
               IN  IF w = "NULL" THEN unix_ipc_error(s1, c, "BT_STOP_STREAM", "EIO")
                   ELSE IF r.sep = 0 THEN unix_ipc_error(s1, c, "BT_STOP_STREAM", "EIO")
                   ELSE IF w # "SESS" THEN Deref(s1, w)
                   ELSE IF ~i.opOk THEN unix_ipc_error(Set(s1, c, "cancel", "a2dp"), c, "BT_STOP_STREAM", "EIO")
                   ELSE StartOp(Set(s1, c, "cancel", "a2dp"), "a2dp_suspend", c, r.sep)
          [] r.type = "HEADSET" ->
               IF ~i.opOk THEN unix_ipc_error(Set(s, c, "cancel", "hs"), c, "BT_STOP_STREAM", "EIO")
               ELSE StartOp(Set(s, c, "cancel", "hs"), "hs_suspend", c, 0)
          [] OTHER ->
               unix_ipc_error(s, c, "BT_STOP_STREAM", "EIO")

\* handle_streamstop_req(client, req)
handle_streamstop_req(s, c, i) ==
    IF s.cl[c].dev = 0 THEN unix_ipc_error(s, c, "BT_STOP_STREAM", "EIO") ELSE start_suspend(s, c, i)

\* handle_close_req(client, req)
handle_close_req(s, c, w) ==
    IF s.cl[c].dev = 0 THEN unix_ipc_error(s, c, "BT_CLOSE", "EIO") ELSE start_close(s, c, TRUE, w)

\* handle_control_req(client, req)
handle_control_req(s, c) == unix_ipc_sendmsg(s, c, "RESPONSE", "BT_CONTROL", "", <<>>)

(* ------------------------- backend completions ------------------------ *)

\* the lock reported for an endpoint by the loop over clients of
\* a2dp_discovery_complete: the lock field of the first client in the list
\* whose session is this one and whose seid is the endpoint's
ClientLoopLock(s, seid) ==
    LET m == {j \in 1..Len(s.clients) : s.cl[s.clients[j]].session = "SESS" /\ s.cl[s.clients[j]].seid = seid}
    IN  IF m = {} THEN {} ELSE s.cl[s.clients[CHOOSE j \in m : \A k \in m : j <= k]].lock

\* a2dp_get_sep(session, stream): the local endpoint whose stream is the given
\* one; for an endpoint without stream (NULL) that is some endpoint without
\* stream, pick
a2dp_get_sep(s, seid, pick) == IF s.sepStream[seid] THEN seid ELSE pick

\* the lock value of one codec block
BlockLock(s, seid, pick) ==
    LET sep == a2dp_get_sep(s, seid, pick)
    IN  IF sep # 0 /\ s.sepLock[sep] THEN {BT_WRITE_LOCK} ELSE ClientLoopLock(s, seid)

\* the codec blocks appended for the remote endpoints from seid n on
RECURSIVE Blocks(_, _, _, _)
Blocks(s, c, n, pick) ==
    IF n > NumMediaSeids THEN <<>>
    ELSE IF s.cl[c].seid # 0 /\ s.cl[c].seid # n THEN Blocks(s, c, n + 1, pick)
    ELSE <<[seid |-> n, configured |-> s.sepStream[n], lock |-> BlockLock(s, n, pick)]>> \o Blocks(s, c, n + 1, pick)

\* the failed: label of the a2dp completions
a2dp_failed(s, c, n) ==
    LET s1 == unix_ipc_error(s, c, n, "EIO")
        s2 == Touch(s1, c)
        s3 == avdtp_unref(s2, c, s2.cl[c].session)
    IN  Set(Set(s3, c, "session", "NULL"), c, "stream", 0)

\* a2dp_discovery_complete(session, seps, err, client)
a2dp_discovery_complete(s, p, res, pick) ==
    LET c == p.c
    IN  IF ~InClients(s, c) THEN Log(s, Ev("dropped", c, "", p.op, p.id, <<>>))
        ELSE IF res = "err" THEN a2dp_failed(s, c, "BT_GET_CAPABILITIES")
        ELSE LET s1 == Set(s, c, "req_id", 0)
             IN  unix_ipc_sendmsg(s1, c, "RESPONSE", "BT_GET_CAPABILITIES", "", Blocks(s1, c, 1, pick))

\* a2dp_config_complete(session, sep, stream, err, client)
a2dp_config_complete(s, p, res) ==
    LET c == p.c
        s1 == Set(Touch(s, c), c, "req_id", 0)
    IN  IF res \in {"err", "nostream"} THEN a2dp_failed(s1, c, "BT_SET_CONFIGURATION")
        ELSE
        LET r == s1.cl[c]
            s2 == IF r.cb_id > 0 THEN avdtp_stream_remove_cb(s1, c, r.session, r.cb_id) ELSE s1
            s3 == Set(Set(s2, c, "sep", p.sep), c, "stream", p.sep)
        IN  IF res = "notransport" THEN a2dp_failed(s3, c, "BT_SET_CONFIGURATION")
            ELSE
            LET s4 == unix_ipc_sendmsg(Set(s3, c, "data_fd", p.sep), c, "RESPONSE", "BT_SET_CONFIGURATION", "", <<>>)
                s5 == [s4 EXCEPT !.cbs = @ \cup {[c |-> c, id |-> s4.nextCb, stream |-> p.sep]}, !.nextCb = @ + 1]
            IN  Set(s5, c, "cb_id", s4.nextCb)

\* the type field of the NewStream message of a2dp_resume_complete
a2dp_newstream_type == "RESPONSE"

\* a resume completion that announces the stream before it answers the request
NewStreamFirst(s, p, res) ==
    LET c == p.c
        s1 == unix_ipc_sendmsg(s, c, "INDICATION", "BT_NEW_STREAM", "", <<>>)
        s2 == unix_ipc_sendmsg(s1, c, "RESPONSE", "BT_START_STREAM", "", <<>>)
    IN  unix_sendmsg_fd(s2, c, TRUE)

\* a2dp_resume_complete(session, err, client)
a2dp_resume_complete(s, p, res) ==
    LET c == p.c
        failed(x) == LET x1 == Touch(unix_ipc_error(x, c, "BT_START_STREAM", "EIO"), c)
                         x2 == IF x1.cl[c].cb_id > 0
                               THEN Set(avdtp_stream_remove_cb(x1, c, x1.cl[c].session, x1.cl[c].cb_id), c, "cb_id", 0)
                               ELSE x1
                         x3 == avdtp_unref(x2, c, x2.cl[c].session)
                     IN  Set(Set(x3, c, "session", "NULL"), c, "stream", 0)
    IN  IF res = "err" THEN failed(s)
        ELSE
        LET s1 == unix_ipc_sendmsg(s, c, "RESPONSE", "BT_START_STREAM", "", <<>>)
            s2 == unix_ipc_sendmsg(s1, c, a2dp_newstream_type, "BT_NEW_STREAM", "", <<>>)
            s3 == unix_sendmsg_fd(s2, c, res # "fdfail")
        IN  IF res = "fdfail" THEN failed(s3) ELSE s3

\* a2dp_suspend_complete(session, err, client)
a2dp_suspend_complete(s, p, res) ==
    IF res = "err" THEN a2dp_failed(s, p.c, "BT_STOP_STREAM")
    ELSE unix_ipc_sendmsg(s, p.c, "RESPONSE", "BT_STOP_STREAM", "", <<>>)

\* headset_setup_complete(dev, client)
headset_setup_complete(s, p, res) ==
    LET c == p.c
        s1 == Set(Touch(s, c), c, "req_id", 0)
    IN  IF res = "err" THEN unix_ipc_error(s1, c, "BT_SET_CONFIGURATION", "EIO")
        ELSE unix_ipc_sendmsg(Set(s1, c, "data_fd", IF res = "nofd" THEN -1 ELSE VoiceSeid), c, "RESPONSE", "BT_SET_CONFIGURATION", "", <<>>)

\* headset_resume_complete(dev, client)
headset_resume_complete(s, p, res) ==
    LET c == p.c
        s1 == Set(Touch(s, c), c, "req_id", 0)
    IN  IF res = "err" THEN unix_ipc_error(s1, c, "BT_START_STREAM", "EIO")
        ELSE
        LET s2 == Set(s1, c, "data_fd", IF res = "nofd" THEN -1 ELSE VoiceSeid)
        IN  IF res = "nofd" THEN unix_ipc_error(s2, c, "BT_START_STREAM", "EIO")
            ELSE
            LET s3 == unix_ipc_sendmsg(s2, c, "RESPONSE", "BT_START_STREAM", "", <<>>)
                s4 == unix_ipc_sendmsg(s3, c, "INDICATION", "BT_NEW_STREAM", "", <<>>)
                s5 == unix_sendmsg_fd(s4, c, res # "fdfail")
            IN  IF res = "fdfail" THEN unix_ipc_error(s5, c, "BT_START_STREAM", "EIO") ELSE s5

\* headset_suspend_complete(dev, client)
headset_suspend_complete(s, p, res) ==
    LET c == p.c
    IN  IF res = "err" THEN Set(Touch(unix_ipc_error(s, c, "BT_STOP_STREAM", "EIO"), c), c, "dev", 0)
        ELSE unix_ipc_sendmsg(s, c, "RESPONSE", "BT_STOP_STREAM", "", <<>>)

\* an IDLE report that leaves the device binding in place
IdleKeepsDevice(s, c) ==
    LET s1 == Touch(s, c)
        r == s1.cl[c]
        s2 == IF r.sep # 0 THEN Set(a2dp_sep_unlock(s1, c, r.sep), c, "sep", 0) ELSE s1
        s4 == IF r.session # "NULL" THEN Set(avdtp_unref(s2, c, r.session), c, "session", "NULL") ELSE s2
    IN  Set(Set(s4, c, "stream", 0), c, "cb_id", 0)

\* stream_state_changed(stream, old, AVDTP_STATE_IDLE, err, client)
stream_state_changed(s, c) ==
    LET s1 == Touch(s, c)
        r == s1.cl[c]
        s2 == IF r.sep # 0 THEN Set(a2dp_sep_unlock(s1, c, r.sep), c, "sep", 0) ELSE s1
        s3 == Set(s2, c, "dev", 0)
        s4 == IF r.session # "NULL" THEN Set(avdtp_unref(s3, c, r.session), c, "session", "NULL") ELSE s3
    IN  Set(Set(s4, c, "stream", 0), c, "cb_id", 0)

\* the callbacks of a stream, run one after the other
RECURSIVE RunCallbacks(_, _)
RunCallbacks(s, todo) ==
    IF todo = {} THEN s
    ELSE LET x == CHOOSE y \in todo : \A z \in todo : y.id <= z.id
         IN  RunCallbacks(stream_state_changed(s, x.c), todo \ {x})

(* ------------------------------ actions ------------------------------- *)

Running == ub = "none" /\ ~exited /\ steps < scope.steps

\* a handler other than server_cb starts
Begin == [Cur EXCEPT !.trace = <<>>, !.steps = @ + 1]

\* server_cb: accept a connection
Accept ==
    /\ ub = "none" /\ ~exited
    /\ accepted < scope.clients
    /\ Commit([Cur EXCEPT !.accepted = @ + 1, !.clients = Append(@, accepted + 1),
                            !.trace = <<Ev("accept", accepted + 1, "", "", 0, <<>>)>>])

\* whether the cancellation of a request is effective, where there is one
CancelOutcomes(q) == IF \E j \in 1..Len(q) : cl[q[j]].req_id # 0 THEN BOOLEAN ELSE {TRUE}

\* client_cb with G_IO_HUP or G_IO_ERR
Hangup(c) ==
    /\ Running
    /\ InClients(Cur, c)
    /\ \E w \in HsClearLocked(cl[c].session), e1 \in CancelOutcomes(<<c>>), e2 \in CancelOutcomes(<<c>>) :
         LET s0 == Log(Begin, Ev("hangup", c, "", "", 0, <<>>))
             s1 == start_close(s0, c, FALSE, w)
             s2 == IF s1.cl[c].cancel # "NULL" /\ s1.cl[c].req_id > 0 THEN Cancel(s1, c, e1) ELSE s1
         IN  Commit(Destroy(s2, c, e2))

\* client_cb: recv fails, or the header length differs from the bytes received
RecvFailed(c, why) ==
    /\ Running
    /\ InClients(Cur, c)
    /\ \E e \in CancelOutcomes(<<c>>) : Commit(Destroy(Log(Begin, Ev(why, c, "", "", 0, <<>>)), c, e))

RECURSIVE FreeAll(_, _, _)
FreeAll(s, q, eff) == IF q = <<>> THEN s ELSE FreeAll(client_free(s, Head(q), eff), Tail(q), eff)

\* unix_exit
UnixExit ==
    /\ Running
    /\ \E e \in CancelOutcomes(clients) :
         LET s0 == Log(Begin, Ev("exit", 0, "", "", 0, <<>>))
             s1 == FreeAll(s0, s0.clients, e)
         IN  Commit([s1 EXCEPT !.exited = TRUE])

\* the request record a handler is given, and the outcomes of the calls it makes
Req(nul, known, conn, auto, transport, seid, lock, codec, avdtpConn, hsActive, getOk, opOk) ==
    [nul |-> nul, known |-> known, conn |-> conn, auto |-> auto, transport |-> transport,
     seid |-> seid, lock |-> lock, codec |-> codec, avdtpConn |-> avdtpConn,
     hsActive |-> hsActive, getOk |-> getOk, opOk |-> opOk]

\* the request record of a message without fields
NoFields == <<>>

\* what a request says: whether its strings are terminated and name the
\* registered device in a state the lookup accepts, and its fields
Fields(i) == [valid |-> i.nul /\ i.known /\ (i.conn \/ i.auto), transport |-> i.transport,
              seid |-> i.seid, lock |-> i.lock, codec |-> i.codec]

\* client_cb has received a message of the given name and fields
Received(c, n, i) == Log(Begin, Ev("req", c, "REQUEST", n, 0, IF i = NoFields THEN i ELSE Fields(i)))

\* the outcomes of a step that can fail: only success where the scope leaves
\* failures of the strings, the registry and the backend calls out
Faulty == IF scope.faults THEN BOOLEAN ELSE {TRUE}

\* the outcomes avdtp_get can have where the handler would call it
GetOutcomes(c) == IF cl[c].type = "SINK" /\ cl[c].session = "NULL" THEN Faulty ELSE {TRUE}

\* the interface and the service a GetCapabilities request would select
IfaceAfter(c, transport) == IF transport = "SCO" THEN "HEADSET_IF" ELSE IF transport = "A2DP" THEN "SINK_IF" ELSE cl[c].interface

TypeAfter(c, transport, avdtpConn, hsActive) == select_service(Cur, IfaceAfter(c, transport), avdtpConn, hsActive)

\* client_cb: BT_GET_CAPABILITIES
GetCapabilities(c) ==
    /\ Running
    /\ InClients(Cur, c)
    /\ \E nul \in Faulty :
       \E known \in (IF nul THEN Faulty ELSE {TRUE}) :
       \E conn \in (IF nul /\ known THEN Faulty ELSE {TRUE}) :
       \E auto \in (IF conn THEN {FALSE} ELSE BOOLEAN) :
       \E transport \in (IF nul THEN scope.transports ELSE {"OTHER"}) :
       LET reach == nul /\ known /\ (conn \/ auto) /\ HasInterface(Cur, IfaceAfter(c, transport))
       IN
       \* the lookup that autoconnect allows is followed with an unspecified seid
       \E seid \in (IF reach THEN (IF conn THEN scope.seids ELSE {0}) ELSE {0}) :
       \E avdtpConn \in (IF reach /\ IfaceAfter(c, transport) = "NULL" THEN BOOLEAN ELSE {FALSE}) :
       \E hsActive \in (IF reach /\ IfaceAfter(c, transport) # "SINK_IF" THEN BOOLEAN ELSE {FALSE}) :
       \E getOk \in (IF reach /\ TypeAfter(c, transport, avdtpConn, hsActive) = "SINK" /\ cl[c].session = "NULL" THEN Faulty ELSE {TRUE}) :
       \E opOk \in (IF reach /\ TypeAfter(c, transport, avdtpConn, hsActive) = "SINK" /\ getOk THEN Faulty ELSE {TRUE}) :
         LET i == Req(nul, known, conn, auto, transport, seid, {}, "OTHER", avdtpConn, hsActive, getOk, opOk)
             s == handle_getcapabilities_req(Received(c, "BT_GET_CAPABILITIES", i), c, i)
         IN  Commit(s)

\* client_cb: BT_OPEN
Open(c) ==
    /\ Running
    /\ InClients(Cur, c)
    /\ \E nul \in Faulty :
       \E known \in (IF nul THEN Faulty ELSE {TRUE}) :
       \E seid \in (IF nul THEN scope.seids ELSE {0}) :
       \E lock \in (IF nul /\ known THEN LockValues ELSE {{}}) :
       \E getOk \in (IF nul /\ known THEN GetOutcomes(c) ELSE {TRUE}) :
         LET i == Req(nul, known, TRUE, FALSE, "OTHER", seid, lock, "OTHER", FALSE, FALSE, getOk, TRUE)
             s == handle_open_req(Received(c, "BT_OPEN", i), c, i)
         IN  Commit(s)

\* client_cb: BT_SET_CONFIGURATION
SetConfiguration(c) ==
    /\ Running
    /\ InClients(Cur, c)
    /\ \E seid \in scope.seids :
       \E transport \in (IF seid = cl[c].seid THEN scope.transports ELSE {"OTHER"}) :
       \E codec \in (IF transport = "A2DP" THEN scope.codecs ELSE {"OTHER"}) :
       \E getOk \in (IF seid = cl[c].seid THEN GetOutcomes(c) ELSE {TRUE}) :
       \E opOk \in (IF seid = cl[c].seid /\ getOk THEN Faulty ELSE {TRUE}) :
         LET i == Req(TRUE, TRUE, TRUE, FALSE, transport, seid, {}, codec, FALSE, FALSE, getOk, opOk)
             s == handle_setconfiguration_req(Received(c, "BT_SET_CONFIGURATION", i), c, i)
         IN  Commit(s)

\* client_cb: BT_START_STREAM
StartStream(c) ==
    /\ Running
    /\ InClients(Cur, c)
    /\ \E getOk \in GetOutcomes(c) :
       \E opOk \in (IF getOk THEN Faulty ELSE {TRUE}) :
         LET i == Req(TRUE, TRUE, TRUE, FALSE, "OTHER", 0, {}, "OTHER", FALSE, FALSE, getOk, opOk)
             s == handle_streamstart_req(Received(c, "BT_START_STREAM", i), c, i)
         IN  Commit(s)

\* client_cb: BT_STOP_STREAM
StopStream(c) ==
    /\ Running
    /\ InClients(Cur, c)
    /\ \E getOk \in GetOutcomes(c) :
       \E opOk \in (IF getOk THEN Faulty ELSE {TRUE}) :
         LET i == Req(TRUE, TRUE, TRUE, FALSE, "OTHER", 0, {}, "OTHER", FALSE, FALSE, getOk, opOk)
             s == handle_streamstop_req(Received(c, "BT_STOP_STREAM", i), c, i)
         IN  Commit(s)

\* client_cb: BT_CLOSE
Close(c) ==
    /\ Running
    /\ InClients(Cur, c)
    /\ \E w \in HsClearLocked(cl[c].session) :
         Commit(handle_close_req(Received(c, "BT_CLOSE", NoFields), c, w))

\* client_cb: BT_CONTROL
Control(c) ==
    /\ Running
    /\ InClients(Cur, c)
    /\ Commit(handle_control_req(Received(c, "BT_CONTROL", NoFields), c))

\* client_cb: a message with any other name is logged and ignored
UnknownMessage(c) ==
    /\ Running
    /\ InClients(Cur, c)
    /\ Commit(Received(c, "OTHER", NoFields))

\* the results the backend can deliver for an operation
Results(op) ==
    CASE op = "discover" -> {"ok", "err"}
      [] op = "a2dp_config" -> {"ok", "err", "nostream", "notransport"}
      [] op = "a2dp_resume" -> {"ok", "err", "fdfail"}
      [] op = "a2dp_suspend" -> {"ok", "err"}
      [] op = "hs_config" -> {"ok", "err"}
      [] op = "hs_resume" -> {"ok", "err", "nofd", "fdfail"}
      [] op = "hs_suspend" -> {"ok", "err"}

\* the endpoints a2dp_get_sep can return for a NULL stream
Unconfigured == IF \E x \in MediaSeids : ~sepStream[x] THEN {x \in MediaSeids : ~sepStream[x]} ELSE {0}

\* the event loop delivers the completion of backend operation p
Delivered(p, res) ==
    LET s0 == Log([Begin EXCEPT !.pending = @ \ {p}], Ev("complete", p.c, res, p.op, p.id, <<>>))
    IN  IF p.op = "a2dp_config" /\ res \in {"ok", "notransport"} THEN [s0 EXCEPT !.sepStream[p.sep] = TRUE] ELSE s0

A2dpDiscoveryComplete(p) ==
    /\ Running /\ p.op = "discover"
    /\ \E res \in Results(p.op), pick \in Unconfigured : Commit(a2dp_discovery_complete(Delivered(p, res), p, res, pick))

A2dpConfigComplete(p) ==
    /\ Running /\ p.op = "a2dp_config"
    /\ \E res \in Results(p.op) : Commit(a2dp_config_complete(Delivered(p, res), p, res))

A2dpResumeComplete(p) ==
    /\ Running /\ p.op = "a2dp_resume"
    /\ \E res \in Results(p.op) : Commit(a2dp_resume_complete(Delivered(p, res), p, res))

A2dpSuspendComplete(p) ==
    /\ Running /\ p.op = "a2dp_suspend"
    /\ \E res \in Results(p.op) : Commit(a2dp_suspend_complete(Delivered(p, res), p, res))

HeadsetSetupComplete(p) ==
    /\ Running /\ p.op = "hs_config"
    /\ \E res \in Results(p.op) : Commit(headset_setup_complete(Delivered(p, res), p, res))

HeadsetResumeComplete(p) ==
    /\ Running /\ p.op = "hs_resume"
    /\ \E res \in Results(p.op) : Commit(headset_resume_complete(Delivered(p, res), p, res))

HeadsetSuspendComplete(p) ==
    /\ Running /\ p.op = "hs_suspend"
    /\ \E res \in Results(p.op) : Commit(headset_suspend_complete(Delivered(p, res), p, res))

\* the stream of an endpoint goes to AVDTP_STATE_IDLE: its callbacks run and
\* the stream is gone
StreamIdle(x) ==
    /\ Running
    /\ sepStream[x]
    /\ LET s0 == Log(Begin, Ev("idle", 0, "", "", x, <<>>))
           s1 == RunCallbacks(s0, {y \in cbs : y.stream = x})
       IN  Commit(IF s1.ub # "none" THEN s1 ELSE [s1 EXCEPT !.sepStream[x] = FALSE, !.cbs = {y \in @ : y.stream # x}])

Start ==
    /\ clients = <<>>
    /\ cl = [c \in Clients |-> NewClient]
    /\ accepted = 0
    /\ dev = [sink |-> TRUE, headset |-> TRUE]
    /\ sref = 0
    /\ sepLock = [x \in MediaSeids |-> FALSE]
    /\ sepStream = [x \in MediaSeids |-> FALSE]
    /\ hsLock = {}
    /\ cbs = {}
    /\ pending = {}
    /\ nextId = 1
    /\ nextCb = 1
    /\ trace = <<>>
    /\ ub = "none"
    /\ exited = FALSE
    /\ steps = 0

\* the session scope: one connection, every request and every failure; the
\* media endpoints are alike to a single session, so it names the first one
Init ==
    /\ Start
    /\ scope = [clients |-> NumClients, steps |-> MaxSteps, faults |-> TRUE,
                transports |-> Transports, seids |-> {0, 1, VoiceSeid}, codecs |-> CodecTypes]

Next ==
    \/ Accept
    \/ \E c \in Clients : GetCapabilities(c)
    \/ \E c \in Clients : Open(c)
    \/ \E c \in Clients : SetConfiguration(c)
    \/ \E c \in Clients : StartStream(c)
    \/ \E c \in Clients : StopStream(c)
    \/ \E c \in Clients : Close(c)
    \/ \E c \in Clients : Control(c)
    \/ \E c \in Clients : UnknownMessage(c)
    \/ \E c \in Clients : Hangup(c)
    \/ \E c \in Clients : RecvFailed(c, "recv_error")
    \/ \E c \in Clients : RecvFailed(c, "length_mismatch")
    \/ \E p \in pending : A2dpDiscoveryComplete(p)
    \/ \E p \in pending : A2dpConfigComplete(p)
    \/ \E p \in pending : A2dpResumeComplete(p)
    \/ \E p \in pending : A2dpSuspendComplete(p)
    \/ \E p \in pending : HeadsetSetupComplete(p)
    \/ \E p \in pending : HeadsetResumeComplete(p)
    \/ \E p \in pending : HeadsetSuspendComplete(p)
    \/ \E x \in MediaSeids : StreamIdle(x)
    \/ UnixExit

Spec == Init /\ [][Next]_vars

\* the pair scope: two connections using the media service, without failures
\* of the strings, the registry and the backend calls
InitPair ==
    /\ Start
    /\ scope = [clients |-> PairClients, steps |-> PairSteps, faults |-> FALSE,
                transports |-> {"A2DP"}, seids |-> 0..NumMediaSeids, codecs |-> {"SBC"}]

NextPair ==
    \/ Accept
    \/ \E c \in Clients : GetCapabilities(c)
    \/ \E c \in Clients : Open(c)
    \/ \E c \in Clients : SetConfiguration(c)
    \/ \E c \in Clients : Close(c)
    \/ \E c \in Clients : Hangup(c)
    \/ \E c \in Clients : RecvFailed(c, "length_mismatch")
    \/ \E p \in pending : A2dpDiscoveryComplete(p)
    \/ \E p \in pending : A2dpConfigComplete(p)

SpecPair == InitPair /\ [][NextPair]_vars

\* the stream scope: one connection using the media service through the life
\* of a stream, without failures of the strings, the registry and the backend
\* calls; completions can still carry errors
InitStream ==
    /\ Start
    /\ scope = [clients |-> NumClients, steps |-> StreamSteps, faults |-> FALSE,
                transports |-> {"A2DP"}, seids |-> {0, 1}, codecs |-> {"SBC", "OTHER"}]

NextStream ==
    \/ Accept
    \/ \E c \in Clients : GetCapabilities(c)
    \/ \E c \in Clients : Open(c)
    \/ \E c \in Clients : SetConfiguration(c)
    \/ \E c \in Clients : StartStream(c)
    \/ \E c \in Clients : StopStream(c)
    \/ \E c \in Clients : Close(c)
    \/ \E p \in pending : A2dpDiscoveryComplete(p)
    \/ \E p \in pending : A2dpConfigComplete(p)
    \/ \E p \in pending : A2dpResumeComplete(p)
    \/ \E p \in pending : A2dpSuspendComplete(p)
    \/ \E x \in MediaSeids : StreamIdle(x)

SpecStream == InitStream /\ [][NextStream]_vars

\* the shared-endpoint scope: two connections that use the one media endpoint
\* of the device in turn, without failures of the strings, the registry and
\* the backend calls; the discovery of the device does not complete within
\* the run
InitShare ==
    /\ Start
    /\ scope = [clients |-> PairClients, steps |-> ShareSteps, faults |-> FALSE,
                transports |-> {"A2DP"}, seids |-> {1}, codecs |-> {"SBC"}]

NextShare ==
    \/ Accept
    \/ \E c \in Clients : GetCapabilities(c)
    \/ \E c \in Clients : Open(c)
    \/ \E c \in Clients : SetConfiguration(c)
    \/ \E c \in Clients : Close(c)
    \/ \E c \in Clients : RecvFailed(c, "length_mismatch")
    \/ \E p \in pending : A2dpConfigComplete(p)

SpecShare == InitShare /\ [][NextShare]_vars

(* ------------------------ capability marshalling ----------------------- *)

\* a2dp-codecs.h: media codec types of an AVDTP media-codec capability
A2DP_CODEC_SBC == 0
A2DP_CODEC_MPEG12 == 1
\* ipc.h: codec types of a wire codec block
BT_A2DP_CODEC_SBC == 0
BT_A2DP_CODEC_MPEG12 == 1

\* a value stored into an unsigned field of w bits
Bits(v, w) == v % (2 ^ w)

\* struct sbc_codec_cap with every bit-field at 0 or all ones, and the
\* bitpools at the ends of their legal range
SbcCaps ==
    {[media_type |-> "AUDIO", media_codec_type |-> A2DP_CODEC_SBC,
      channel_mode |-> cm, frequency |-> fr, allocation_method |-> am,
      subbands |-> sb, block_length |-> bl, min_bitpool |-> lo, max_bitpool |-> hi] :
        cm \in {0, 15}, fr \in {0, 15}, am \in {0, 3}, sb \in {0, 3}, bl \in {0, 15},
        lo \in {2, 250}, hi \in {250}}
    \cup
    {[media_type |-> "AUDIO", media_codec_type |-> A2DP_CODEC_SBC,
      channel_mode |-> cm, frequency |-> 5, allocation_method |-> 1,
      subbands |-> 2, block_length |-> 9, min_bitpool |-> 2, max_bitpool |-> 2] :
        cm \in {0, 10}}

\* struct mpeg_codec_cap with every bit-field at 0 or all ones
MpegCaps ==
    {[media_type |-> "AUDIO", media_codec_type |-> A2DP_CODEC_MPEG12,
      channel_mode |-> cm, crc |-> crc, layer |-> ly, frequency |-> fr,
      mpf |-> mpf, bitrate |-> br] :
        cm \in {0, 15}, crc \in {0, 1}, ly \in {0, 7}, fr \in {0, 63}, mpf \in {0, 1},
        br \in {0, 65535}}

\* a2dp_append_codec(rsp, cap, seid, configured, lock): the wire codec block
\* of a media-codec capability; the fields of the blocks are uint8_t, the
\* bitrate of the MPEG block uint16_t
a2dp_append_codec(cap, seid, configured, lock) ==
    IF cap.media_codec_type = A2DP_CODEC_SBC
    THEN [seid |-> seid, type |-> cap.media_codec_type, configured |-> configured, lock |-> lock,
          channel_mode |-> Bits(cap.channel_mode, 8), frequency |-> Bits(cap.frequency, 8),
          allocation_method |-> Bits(cap.allocation_method, 8), subbands |-> Bits(cap.subbands, 8),
          block_length |-> Bits(cap.block_length, 8),
          min_bitpool |-> Bits(cap.min_bitpool, 8), max_bitpool |-> Bits(cap.max_bitpool, 8)]
    ELSE IF cap.media_codec_type = A2DP_CODEC_MPEG12
    THEN [seid |-> seid, type |-> cap.media_codec_type, configured |-> configured, lock |-> lock,
          channel_mode |-> Bits(cap.channel_mode, 8), crc |-> Bits(cap.crc, 8),
          layer |-> Bits(cap.layer, 8), frequency |-> Bits(cap.frequency, 8),
          mpf |-> Bits(cap.mpf, 8), bitrate |-> Bits(cap.bitrate, 16)]
    ELSE [seid |-> seid, type |-> cap.media_codec_type, configured |-> configured, lock |-> lock]

\* a codec rebuild that leaves the mpf bit of an MPEG capability at 0
RebuildWithoutMpf(block) ==
    IF block.type = BT_A2DP_CODEC_MPEG12
    THEN [media_type |-> "AUDIO", media_codec_type |-> A2DP_CODEC_MPEG12,
          channel_mode |-> Bits(block.channel_mode, 4), crc |-> Bits(block.crc, 1),
          layer |-> Bits(block.layer, 3), frequency |-> Bits(block.frequency, 6),
          mpf |-> 0, bitrate |-> Bits(block.bitrate, 16)]
    ELSE IF block.type = BT_A2DP_CODEC_SBC
    THEN [media_type |-> "AUDIO", media_codec_type |-> A2DP_CODEC_SBC,
          channel_mode |-> Bits(block.channel_mode, 4), frequency |-> Bits(block.frequency, 4),
          allocation_method |-> Bits(block.allocation_method, 2), subbands |-> Bits(block.subbands, 2),
          block_length |-> Bits(block.block_length, 4),
          min_bitpool |-> Bits(block.min_bitpool, 8), max_bitpool |-> Bits(block.max_bitpool, 8)]
    ELSE "EINVAL"

\* handle_a2dp_transport, the codec part: the media-codec capability rebuilt
\* from the codec block of a SetConfiguration, into the bit-fields of
\* struct mpeg_codec_cap and struct sbc_codec_cap; -EINVAL for another type
media_codec_of(block) ==
    IF block.type = BT_A2DP_CODEC_MPEG12
    THEN [media_type |-> "AUDIO", media_codec_type |-> A2DP_CODEC_MPEG12,
          channel_mode |-> Bits(block.channel_mode, 4), crc |-> Bits(block.crc, 1),
          layer |-> Bits(block.layer, 3), frequency |-> Bits(block.frequency, 6),
          mpf |-> Bits(block.mpf, 1), bitrate |-> Bits(block.bitrate, 16)]
    ELSE IF block.type = BT_A2DP_CODEC_SBC
    THEN [media_type |-> "AUDIO", media_codec_type |-> A2DP_CODEC_SBC,
          channel_mode |-> Bits(block.channel_mode, 4), frequency |-> Bits(block.frequency, 4),
          allocation_method |-> Bits(block.allocation_method, 2), subbands |-> Bits(block.subbands, 2),
          block_length |-> Bits(block.block_length, 4),
          min_bitpool |-> Bits(block.min_bitpool, 8), max_bitpool |-> Bits(block.max_bitpool, 8)]
    ELSE "EINVAL"

\* the codec scope: a media-codec capability of a remote endpoint is put into
\* a GetCapabilities response, and the client sends the block back in a
\* SetConfiguration
InitCodec ==
    /\ clients = <<>>
    /\ cl = [c \in Clients |-> NewClient]
    /\ accepted = 0
    /\ dev = [sink |-> TRUE, headset |-> TRUE]
    /\ sref = 0
    /\ sepLock = [x \in MediaSeids |-> FALSE]
    /\ sepStream = [x \in MediaSeids |-> FALSE]
    /\ hsLock = {}
    /\ cbs = {}
    /\ pending = {}
    /\ nextId = 1
    /\ nextCb = 1
    /\ \E cap \in SbcCaps \cup MpegCaps : trace = <<Ev("cap", 0, "", "", 0, cap)>>
    /\ ub = "none"
    /\ exited = FALSE
    /\ steps = 0
    /\ scope = [clients |-> 0, steps |-> 0, faults |-> FALSE,
                transports |-> {"A2DP"}, seids |-> MediaSeids, codecs |-> {"SBC", "MPEG12"}]

\* a2dp_discovery_complete appends the block of the capability to the response
AppendCodec ==
    /\ Len(trace) = 1 /\ trace[1].k = "cap"
    /\ \E seid \in scope.seids :
         Commit([Cur EXCEPT !.trace = Append(@, Ev("block", 0, "RESPONSE", "BT_GET_CAPABILITIES", 0,
                                                    a2dp_append_codec(trace[1].b, seid, 0, {})))])

\* handle_setconfiguration_req rebuilds the capability from the block
RebuildCodec ==
    /\ Len(trace) = 2 /\ trace[2].k = "block"
    /\ Commit([Cur EXCEPT !.trace = Append(@, Ev("rebuilt", 0, "REQUEST", "BT_SET_CONFIGURATION", 0,
                                                media_codec_of(trace[2].b)))])

NextCodec ==
    \/ AppendCodec
    \/ RebuildCodec

SpecCodec == InitCodec /\ [][NextCodec]_vars

(* ------------------------------ properties ---------------------------- *)

Live(q, c) == \E j \in 1..Len(q) : q[j] = c

\* what the handler that has just run sent to client c, in order
SentTo(tr, c) == SelectSeq(tr, LAMBDA e : e.k \in {"send", "sendfd"} /\ e.c = c)

\* how often the handler that has just run did k for client c with value v
Times(tr, k, c, v) == Cardinality({j \in 1..Len(tr) : tr[j].k = k /\ tr[j].c = c /\ tr[j].v = v})

\* the step is the handling of a request of client c
Handles(tr, c) == tr # <<>> /\ tr[1].k = "req" /\ tr[1].c = c

\* the step destroys the session of client c
Destroyed(c) == InClients(Cur, c) /\ ub' = "none" /\ (exited' \/ ~Live(clients', c))

\* client c holds the lock of endpoint seid (the voice device for VoiceSeid)
Holds(c, seid) ==
    /\ InClients(Cur, c)
    /\ IF seid \in MediaSeids
       THEN cl[c].sep = seid /\ sepLock[seid]
       ELSE cl[c].type = "HEADSET" /\ HsLocked(cl[c].session) /\ cl[c].lock # {} /\ cl[c].lock \subseteq hsLock

\* the positions of the GetCapabilities responses the last handler sent
CapsResponses == {j \in 1..Len(trace) : trace[j].k = "send" /\ trace[j].t = "RESPONSE" /\ trace[j].n = "BT_GET_CAPABILITIES"}

\* C1: when a client's socket reports hangup or error while a configure
\* started by SetConfiguration is in flight with the stored request id r, the
\* teardown (hangup branch, then client_free) calls the session's cancel
\* exactly once with r.
C1_CancelExactlyOnce ==
    [][\A c \in Clients :
         (/\ InClients(Cur, c)
          /\ cl[c].req_id > 0
          /\ \E p \in pending : p.c = c /\ p.id = cl[c].req_id /\ p.op \in {"a2dp_config", "hs_config"}
          /\ trace' # <<>> /\ trace'[1].k = "hangup" /\ trace'[1].c = c)
         => Times(trace', "cancel", c, cl[c].req_id) = 1]_vars

\* a hangup during a media configure has cancelled its request twice
C1_CancelledTwice ==
    /\ trace # <<>> /\ trace[1].k = "hangup"
    /\ \E p \in pending : p.op = "a2dp_config" /\ Times(trace, "cancel", p.c, p.id) = 2

\* C2: a session that holds the lock of a media endpoint unlocks it exactly
\* once when it is destroyed, whatever destroys it and whatever it was asked
\* after the Open.
C2_MediaLockReleasedOnce ==
    [][\A c \in Clients :
         (cl[c].sep # 0 /\ Holds(c, cl[c].sep) /\ Destroyed(c))
         => Times(trace', "sep_unlock", c, cl[c].sep) = 1 /\ ~sepLock'[cl[c].sep]]_vars

\* a recv error has destroyed the last session and a media endpoint is
\* still locked
C2_LockLeftBehind ==
    /\ trace # <<>> /\ trace[1].k = "recv_error" /\ ub = "none"
    /\ clients = <<>>
    /\ \E x \in MediaSeids : sepLock[x]

\* C3: a session that holds the lock of the voice device releases it when it
\* is destroyed, whatever destroys it.
C3_VoiceLockReleased ==
    [][\A c \in Clients :
         (Holds(c, VoiceSeid) /\ Destroyed(c)) => hsLock' \cap cl[c].lock = {}]_vars

\* a message of the wrong length has destroyed the last session and the
\* voice device is still locked
C3_VoiceLockLeftBehind ==
    /\ trace # <<>> /\ trace[1].k = "length_mismatch" /\ ub = "none"
    /\ clients = <<>>
    /\ hsLock # {}

\* C4: a completion delivered for a destroyed session is dropped after the
\* look-up in the live set: no field of the freed record is read or written,
\* no reference is released and nothing is sent.
C4_CompletionForDestroyedDropped ==
    [][\A p \in pending :
         (/\ Freed(Cur, p.c)
          /\ trace' # <<>> /\ trace'[1].k = "complete" /\ trace'[1].v = p.id)
         => /\ ub' = "none"
            /\ Len(trace') = 2 /\ trace'[2].k = "dropped"
            /\ cl' = cl /\ sref' = sref]_vars

\* the completion of a suspend has used the record of a destroyed session
C4_SuspendUsesFreedRecord ==
    /\ trace # <<>> /\ trace[1].k = "complete" /\ trace[1].n = "a2dp_suspend"
    /\ Freed(Cur, trace[1].c)
    /\ ub = "use_after_free"

\* C5: no live session has more than one backend operation outstanding.
C5_OneOutstandingOperation ==
    \A c \in Clients : InClients(Cur, c) => Cardinality({p \in pending : p.c = c}) <= 1

\* a live session has a configure and a resume outstanding
C5_ConfigureAndResumeOutstanding ==
    \E p \in pending, q \in pending :
        p.c = q.c /\ InClients(Cur, p.c) /\ p.op = "a2dp_config" /\ q.op = "a2dp_resume"

\* C6: an Open that is the first request of a freshly accepted session, names
\* the registered device and an endpoint (or the voice device) that is not
\* locked, is answered with the Open response and leaves the session holding
\* the lock.
C6_OpenFirstSucceeds ==
    [][\A c \in Clients :
         (/\ InClients(Cur, c) /\ steps = 0 /\ cl[c] = NewClient
          /\ Handles(trace', c) /\ trace'[1].n = "BT_OPEN"
          /\ trace'[1].b.valid /\ trace'[1].b.seid \in 1..VoiceSeid
          /\ IF trace'[1].b.seid \in MediaSeids
             THEN ~sepLock[trace'[1].b.seid]
             ELSE hsLock \cap trace'[1].b.lock = {})
         => /\ \E j \in 1..Len(trace') : /\ trace'[j].k = "send" /\ trace'[j].c = c
                                         /\ trace'[j].t = "RESPONSE" /\ trace'[j].n = "BT_OPEN"
            /\ IF trace'[1].b.seid \in MediaSeids
               THEN cl'[c].sep = trace'[1].b.seid /\ sepLock'[trace'[1].b.seid]
               ELSE trace'[1].b.lock \subseteq hsLock']_vars

\* the first request of a session was a well-formed Open for the voice
\* device, which nobody had locked, and it was refused
C6_FirstOpenRefused ==
    /\ steps = 1 /\ Len(trace) = 2
    /\ trace[1].k = "req" /\ trace[1].n = "BT_OPEN" /\ trace[1].b.valid /\ trace[1].b.seid = VoiceSeid
    /\ trace[2].k = "send" /\ trace[2].t = "ERROR" /\ trace[2].n = "BT_OPEN" /\ trace[2].v = "EINVAL"
    /\ hsLock = {}

\* the service kind a request asks for, or "NONE" if it names none
KindAsked(e) ==
    IF e.n = "BT_OPEN" THEN (IF e.b.seid > BT_A2DP_SEID_RANGE THEN "HEADSET" ELSE "SINK")
    ELSE IF e.n \in {"BT_GET_CAPABILITIES", "BT_SET_CONFIGURATION"}
    THEN (IF e.b.transport = "SCO" THEN "HEADSET" ELSE IF e.b.transport = "A2DP" THEN "SINK" ELSE "NONE")
    ELSE "NONE"

\* C7: once the service kind of a session is set no request changes it or the
\* interface, and a GetCapabilities, Open or SetConfiguration that asks for
\* the other kind is answered with ERROR carrying EINVAL.
C7_KindImmutable ==
    [][\A c \in Clients :
         (InClients(Cur, c) /\ cl[c].type # "NONE" /\ Handles(trace', c) /\ ub' = "none")
         => /\ cl'[c].type = cl[c].type
            /\ cl'[c].interface = cl[c].interface
            /\ (KindAsked(trace'[1]) \notin {"NONE", cl[c].type} /\ trace'[1].b.valid)
               => \E j \in 1..Len(trace') : /\ trace'[j].k = "send" /\ trace'[j].c = c
                                            /\ trace'[j].t = "ERROR" /\ trace'[j].v = "EINVAL"]_vars

\* a session that holds the lock of a media endpoint has become a voice
\* session by a GetCapabilities request
C7_MediaSessionTurnedVoice ==
    /\ trace # <<>> /\ trace[1].k = "req" /\ trace[1].n = "BT_GET_CAPABILITIES"
    /\ cl[trace[1].c].type = "HEADSET" /\ cl[trace[1].c].interface = "HEADSET_IF"
    /\ cl[trace[1].c].sep # 0

\* C8: while a live session holds the WRITE lock of media endpoint s, every
\* GetCapabilities response to another live session that has a block for s
\* reports the WRITE bit in it, whichever of the two connected first.
C8_OtherSeesWriteLock ==
    \A j \in CapsResponses : \A c1 \in Clients \ {trace[j].c} :
        (/\ InClients(Cur, trace[j].c)
         /\ cl[c1].sep # 0 /\ Holds(c1, cl[c1].sep)
         /\ cl[c1].session = "SESS" /\ BT_WRITE_LOCK \in cl[c1].lock)
        => \A k \in 1..Len(trace[j].b) :
               trace[j].b[k].seid = cl[c1].sep => BT_WRITE_LOCK \in trace[j].b[k].lock

\* a response to the session that connected first has a block without the
\* WRITE bit for the endpoint the other session holds locked
C8_WriteLockNotReported ==
    \E j \in CapsResponses :
        /\ trace[j].c = 1 /\ Len(trace[j].b) = 1 /\ trace[j].b[1].lock = {}
        /\ Holds(2, trace[j].b[1].seid) /\ BT_WRITE_LOCK \in cl[2].lock

\* C9: a block of a GetCapabilities response has a non-zero lock field only
\* if a live session other than the one answered holds the lock of the
\* block's endpoint.
C9_LockOnlyIfOtherHolds ==
    \A j \in CapsResponses : \A k \in 1..Len(trace[j].b) :
        trace[j].b[k].lock # {}
        => \E c1 \in Clients \ {trace[j].c} : Holds(c1, trace[j].b[k].seid)

\* a response reports the lock that the answered session holds itself, while
\* no other session is connected
C9_OwnLockReported ==
    \E j \in CapsResponses : \E k \in 1..Len(trace[j].b) :
        /\ trace[j].b[k].lock # {}
        /\ Holds(trace[j].c, trace[j].b[k].seid)
        /\ Len(clients) = 1

\* the last handler was the completion of a resume that the backend reports
\* as done, for a session that is live
ResumeDone == /\ trace # <<>> /\ trace[1].k = "complete" /\ ub = "none"
              /\ trace[1].n \in {"a2dp_resume", "hs_resume"} /\ trace[1].t # "err"

\* the names of the messages, and the fd, in the order sent
Names(q) == [j \in 1..Len(q) |-> IF q[j].k = "sendfd" THEN "fd" ELSE IF q[j].t = "ERROR" THEN "ERROR" ELSE q[j].n]

\* C10 as stated: every resume completion that the backend reports as done
\* sends the StartStream response, NewStream and the fd message, in this
\* order and nothing else to that client.
C10_ResumeSendsThree ==
    ResumeDone => Names(SentTo(trace, trace[1].c)) = <<"BT_START_STREAM", "BT_NEW_STREAM", "fd">>

\* C10, with the cases of the fd: if the fd is at hand and the kernel takes
\* the fd message the three are sent in order and nothing else; if the voice
\* device has no SCO fd only an ERROR is sent; if the fd message cannot be
\* sent the response and NewStream are followed by an ERROR.
C10_ResumeSendsInOrder ==
    ResumeDone =>
        Names(SentTo(trace, trace[1].c)) =
            CASE trace[1].t = "ok" -> <<"BT_START_STREAM", "BT_NEW_STREAM", "fd">>
              [] trace[1].t = "fdfail" -> <<"BT_START_STREAM", "BT_NEW_STREAM", "ERROR">>
              [] trace[1].t = "nofd" -> <<"ERROR">>

\* a media resume has completed and the three were sent
C10_MediaStreamStarted ==
    /\ ResumeDone /\ trace[1].n = "a2dp_resume" /\ trace[1].t = "ok"
    /\ Len(SentTo(trace, trace[1].c)) = 3

\* the last handler sent client c a message of type t and name n with value v
Replied(tr, c, t, n, v) ==
    \E j \in 1..Len(tr) : tr[j].k = "send" /\ tr[j].c = c /\ tr[j].t = t /\ tr[j].n = n /\ tr[j].v = v

\* C11: a StartStream on a session that was not configured since its last
\* Open (here: sent directly after the Open, or directly after a
\* GetCapabilities that was the session's only request) is answered with
\* ERROR(StartStream, EIO) and starts no backend resume.
C11_StartUnconfiguredRefused ==
    [][\A c \in Clients :
         (/\ InClients(Cur, c)
          /\ Handles(trace, c)
          /\ trace[1].n = "BT_OPEN" \/ (trace[1].n = "BT_GET_CAPABILITIES" /\ steps = 1)
          /\ Handles(trace', c) /\ trace'[1].n = "BT_START_STREAM")
         => /\ Replied(trace', c, "ERROR", "BT_START_STREAM", "EIO")
            /\ pending' = pending]_vars

\* a voice session whose only request before was GetCapabilities has been
\* sent StartStream, and a backend resume is outstanding
C11_ResumeStartedUnconfigured ==
    /\ steps = 2 /\ trace # <<>>
    /\ trace[1].k = "req" /\ trace[1].n = "BT_START_STREAM"
    /\ cl[trace[1].c].type = "HEADSET"
    /\ \E p \in pending : p.c = trace[1].c /\ p.op = "hs_resume"

\* the last step delivered a media completion carrying an error to the live
\* session c
MediaErrorDelivered(c) ==
    /\ trace # <<>> /\ ub = "none"
    /\ trace[1].k = "complete" /\ trace[1].c = c /\ trace[1].t = "err"
    /\ trace[1].n \in {"a2dp_config", "a2dp_resume", "a2dp_suspend"}
    /\ Live(clients, c)

\* C13: after a media completion (configure, resume, suspend) that carries
\* an error, the session holds no backend session reference, no stream and
\* no local endpoint, and exactly one ERROR has been sent to it.
C13_FailedCompletionReleases ==
    \A c \in Clients :
        MediaErrorDelivered(c)
        => /\ cl[c].session = "NULL" /\ cl[c].stream = 0 /\ cl[c].sep = 0
           /\ Cardinality({j \in 1..Len(trace) : trace[j].k = "send" /\ trace[j].c = c /\ trace[j].t = "ERROR"}) = 1

\* a failed media completion has left the session with its endpoint, which
\* is still locked
C13_EndpointKeptAfterError ==
    \E c \in Clients :
        /\ MediaErrorDelivered(c)
        /\ cl[c].session = "NULL" /\ cl[c].stream = 0
        /\ cl[c].sep # 0 /\ sepLock[cl[c].sep]

\* the requests that need a device binding
BoundRequests == {"BT_SET_CONFIGURATION", "BT_START_STREAM", "BT_STOP_STREAM", "BT_CLOSE"}

\* session c is live and has no device binding
Unbound(c) == Live(clients, c) /\ cl[c].dev = 0

\* session c had a configured media stream (only a successful configure
\* stores a media fd) and has lost its device binding since
WentIdle(c) == Unbound(c) /\ cl[c].type = "SINK" /\ cl[c].data_fd \in MediaSeids

\* the step reports the stream of callback y as IDLE to a live session:
\* afterwards the session has no device binding, no local endpoint (the one
\* it held is unlocked), no backend session reference, no stream and no
\* subscription, and it is still live with its socket open
IdleUnbinds(y) ==
    (/\ trace' # <<>> /\ trace'[1].k = "idle" /\ trace'[1].v = y.stream
     /\ Live(clients, y.c))
    => /\ ub' = "none"
       /\ cl'[y.c].dev = 0 /\ cl'[y.c].sep = 0 /\ cl'[y.c].session = "NULL"
       /\ cl'[y.c].stream = 0 /\ cl'[y.c].cb_id = 0
       /\ cl[y.c].sep # 0 => ~sepLock'[cl[y.c].sep]
       /\ Live(clients', y.c)
       /\ \A j \in 1..Len(trace') : trace'[j].k # "close"

\* the step handles a request of BoundRequests from c
BoundRequest(c) == Handles(trace', c) /\ trace'[1].n \in BoundRequests

\* the SetConfiguration just handled names the opened seid and the media
\* transport, which the session's interface allows, with a codec type that is
\* neither SBC nor MPEG12
BadMediaCodec(c) ==
    /\ trace'[1].n = "BT_SET_CONFIGURATION" /\ trace'[1].b.seid = cl[c].seid
    /\ trace'[1].b.transport = "A2DP" /\ cl[c].interface \in {"NULL", "SINK_IF"}
    /\ trace'[1].b.codec \notin {"SBC", "MPEG12"}

CloseAccepted(c) ==
    /\ Handles(trace, c) /\ trace[1].n = "BT_CLOSE" /\ ub = "none" /\ Live(clients, c)
    /\ Replied(trace, c, "RESPONSE", "BT_CLOSE", "")

\* session c holds what an Open gives: a locked media endpoint, or the lock
\* of the voice device
Opened(c) ==
    \/ cl[c].type = "SINK" /\ cl[c].sep # 0 /\ sepLock[cl[c].sep]
    \/ cl[c].type = "HEADSET" /\ cl[c].dev # 0 /\ HsLocked(cl[c].session)

\* C14: after an accepted Close of a session that was Opened, Configured or
\* Streaming the session is Fresh: it holds no local endpoint and no backend
\* session reference, has no stream-state subscription id, no in-flight
\* request id and no device binding.
C14_CloseLeavesFresh ==
    [][\A c \in Clients :
         (Opened(c) /\ CloseAccepted(c)')
         => /\ cl'[c].sep = 0 /\ cl'[c].session = "NULL"
            /\ cl'[c].cb_id = 0 /\ cl'[c].req_id = 0 /\ cl'[c].dev = 0
            /\ \A p \in pending' : p.c # c]_vars

\* a Close has been accepted, and has unlocked the endpoint of the session,
\* while a configure of the session was outstanding: the session still has
\* its device binding and the id of the request, and the configure is still
\* outstanding
C14_RequestSurvivesClose ==
    \E c \in Clients :
        /\ CloseAccepted(c)
        /\ \E j \in 1..Len(trace) : trace[j].k = "sep_unlock" /\ trace[j].c = c
        /\ cl[c].sep = 0 /\ cl[c].session = "NULL"
        /\ cl[c].dev # 0 /\ cl[c].req_id # 0
        /\ \E p \in pending : p.c = c /\ p.id = cl[c].req_id /\ p.op = "a2dp_config"

\* C15: every ERROR sent while a request of a session is handled carries the
\* name of that request, and the session stays in the live set.
C15_ErrorNamesRequest ==
    \A c \in Clients :
        (Handles(trace, c) /\ ub = "none")
        => \A j \in 1..Len(trace) :
             (trace[j].k = "send" /\ trace[j].t = "ERROR")
             => trace[j].c = c /\ trace[j].n = trace[1].n /\ Live(clients, c)

\* an Open of a live session has been answered with an ERROR that carries the
\* name of SetConfiguration
C15_OpenErrorNamesSetConfiguration ==
    \E c \in Clients :
        /\ Handles(trace, c) /\ trace[1].n = "BT_OPEN" /\ ub = "none" /\ Live(clients, c)
        /\ \E j \in 1..Len(trace) : trace[j].k = "send" /\ trace[j].c = c /\ trace[j].t = "ERROR" /\ trace[j].n = "BT_SET_CONFIGURATION"
        /\ \A j \in 1..Len(trace) : trace[j].k = "send" => trace[j].n # "BT_OPEN"

\* the handler of a request of c did nothing that is logged but send one ERROR:
\* the request was rejected before any backend call
RejectedInPreparation(tr, c) ==
    /\ Handles(tr, c) /\ Len(tr) = 2
    /\ tr[2].k = "send" /\ tr[2].c = c /\ tr[2].t = "ERROR"

\* C16: a request rejected with an ERROR during preparation leaves the
\* protocol state of the session unchanged: kind, interface, opened seid, lock
\* mode, held lock, device binding and capability list.
C16_RejectedChangesNothing ==
    [][\A c \in Clients :
         (Live(clients, c) /\ RejectedInPreparation(trace', c) /\ ub' = "none")
         => /\ cl'[c].type = cl[c].type /\ cl'[c].interface = cl[c].interface
            /\ cl'[c].seid = cl[c].seid /\ cl'[c].lock = cl[c].lock
            /\ cl'[c].sep = cl[c].sep /\ sepLock' = sepLock /\ hsLock' = hsLock
            /\ cl'[c].dev = cl[c].dev /\ cl'[c].caps = cl[c].caps]_vars

\* the first request of a session was rejected in preparation, and the
\* session is not as it was accepted: its interface, seid, lock mode or
\* capability list has been written
C16_RejectedRequestWrote ==
    \E c \in Clients :
        /\ steps = 1 /\ ub = "none" /\ Live(clients, c)
        /\ RejectedInPreparation(trace, c)
        /\ \/ cl[c].interface # NewClient.interface
           \/ cl[c].seid # NewClient.seid
           \/ cl[c].lock # NewClient.lock
           \/ cl[c].caps # NewClient.caps

\* C17: GetCapabilities is read-only for a session that holds a media
\* endpoint: handling it changes neither the opened seid nor the lock mode nor
\* the held lock, so that a SetConfiguration for the opened seid is accepted
\* afterwards as it was before.
C17_GetCapabilitiesReadOnly ==
    [][\A c \in Clients :
         (/\ Live(clients, c) /\ cl[c].type = "SINK" /\ cl[c].sep # 0 /\ cl[c].seid = cl[c].sep
          /\ Handles(trace', c) /\ trace'[1].n = "BT_GET_CAPABILITIES" /\ ub' = "none")
         => /\ cl'[c].seid = cl[c].seid /\ cl'[c].lock = cl[c].lock
            /\ cl'[c].sep = cl[c].sep /\ sepLock' = sepLock]_vars

\* a session sent GetCapabilities, Open and GetCapabilities: it holds the
\* locked endpoint of the Open, and its opened seid is no longer the seid of
\* that endpoint, so that a SetConfiguration for it is refused
C17_OpenedSeidOverwritten ==
    \E c \in Clients :
        /\ steps = 3 /\ ub = "none" /\ Live(clients, c)
        /\ Handles(trace, c) /\ trace[1].n = "BT_GET_CAPABILITIES"
        /\ cl[c].type = "SINK" /\ cl[c].sep # 0 /\ sepLock[cl[c].sep]
        /\ cl[c].seid # cl[c].sep
        /\ LET i == Req(TRUE, TRUE, TRUE, FALSE, "A2DP", cl[c].sep, {}, "SBC", FALSE, FALSE, TRUE, TRUE)
           IN  Replied(handle_setconfiguration_req(Received(c, "BT_SET_CONFIGURATION", i), c, i).trace,
                       c, "ERROR", "BT_SET_CONFIGURATION", "EIO")

\* the backend operations of session c that were started before the last step
\* and are still outstanding: requests of c accepted earlier and not answered
Unanswered(c) ==
    {p \in pending : /\ p.c = c
                     /\ \A j \in 1..Len(trace) : ~(trace[j].k = "start" /\ trace[j].v = p.id)}

\* C18: the terminal replies of a session are sent in the order its requests
\* were accepted: when a step sends a RESPONSE or an ERROR to a live session,
\* no request of the session accepted before the answered one is unanswered.
C18_RepliesInOrder ==
    \A c \in Clients :
        (/\ ub = "none" /\ Live(clients, c) /\ trace # <<>>
         /\ \E j \in 1..Len(trace) : trace[j].k = "send" /\ trace[j].c = c /\ trace[j].t \in {"RESPONSE", "ERROR"})
        => \A p \in Unanswered(c) : trace[1].k = "complete" /\ trace[1].c = c /\ trace[1].v < p.id

\* an Open of a session has been answered with the Open response while the
\* discovery of its earlier GetCapabilities is outstanding
C18_OpenAnsweredBeforeGetCapabilities ==
    \E c \in Clients :
        /\ ub = "none" /\ Live(clients, c)
        /\ Handles(trace, c) /\ trace[1].n = "BT_OPEN"
        /\ Replied(trace, c, "RESPONSE", "BT_OPEN", "")
        /\ \E p \in Unanswered(c) : p.op = "discover"

\* the step is client_cb finding the header length of a message of the live
\* session c different from the bytes received
LengthMismatch(c) == Live(clients, c) /\ trace' # <<>> /\ trace'[1].k = "length_mismatch" /\ trace'[1].c = c

\* the step leaves the live session d as it is: its record, its place in the
\* live set, its outstanding backend operations and, if it holds an endpoint
\* together with its session reference as Open leaves them, the lock of that
\* endpoint
Untouched(d) ==
    /\ Live(clients', d) /\ cl'[d] = cl[d]
    /\ {p \in pending' : p.c = d} = {p \in pending : p.c = d}
    /\ (cl[d].sep # 0 /\ cl[d].session = "SESS") => sepLock'[cl[d].sep] = sepLock[cl[d].sep]

\* C19: on a header length mismatch the session is removed from the live set
\* and destroyed without any request handler being dispatched, and no field,
\* lock or in-flight request of any other live session changes.
C19_LengthMismatchIsolated ==
    [][\A c \in Clients :
         LengthMismatch(c)
         => /\ ub' = "none" /\ ~Live(clients', c)
            /\ \E j \in 1..Len(trace') : trace'[j].k = "close" /\ trace'[j].c = c
            /\ \A j \in 1..Len(trace') : trace'[j].k \notin {"req", "send", "sendfd", "start"}
            /\ \A d \in Clients \ {c} : Live(clients, d) => Untouched(d)]_vars

\* the session of client c has been destroyed on a length mismatch, which
\* unlocked an endpoint, and another live session holds that endpoint together
\* with its session reference: the endpoint it locked is no longer locked
C19_OtherSessionLostLock ==
    /\ ub = "none" /\ trace # <<>> /\ trace[1].k = "length_mismatch"
    /\ ~Live(clients, trace[1].c)
    /\ \E d \in Clients \ {trace[1].c} :
         /\ Live(clients, d) /\ cl[d].sep # 0 /\ cl[d].session = "SESS" /\ cl[d].seid = cl[d].sep
         /\ ~sepLock[cl[d].sep]
         /\ \E j \in 1..Len(trace) : trace[j].k = "sep_unlock" /\ trace[j].c = trace[1].c /\ trace[j].v = cl[d].sep

\* the step handles a SetConfiguration of the live session c whose codec block
\* names a seid other than the opened seid of the session
ConfiguresOtherSeid(c) ==
    /\ Live(clients, c)
    /\ Handles(trace', c) /\ trace'[1].n = "BT_SET_CONFIGURATION"
    /\ trace'[1].b.seid # cl[c].seid

C21_UnknownCodecRefused ==
    [][\A c \in Clients :
         (/\ Live(clients, c)
          /\ Handles(trace', c) /\ trace'[1].n = "BT_SET_CONFIGURATION"
          /\ trace'[1].b.codec \notin {"SBC", "MPEG12"})
         => /\ Replied(trace', c, "ERROR", "BT_SET_CONFIGURATION", "EINVAL")
            /\ pending' = pending]_vars

\* a media session has sent a SetConfiguration for its opened seid whose
\* transport is neither SCO nor A2DP and whose codec type is unknown, and a
\* backend configure has been started for it
C21_ConfigureStartedUnknownCodec ==
    \E c \in Clients :
        /\ ub = "none" /\ Live(clients, c) /\ cl[c].type = "SINK"
        /\ Handles(trace, c) /\ trace[1].n = "BT_SET_CONFIGURATION"
        /\ trace[1].b.codec \notin {"SBC", "MPEG12"} /\ trace[1].b.transport = "OTHER"
        /\ trace[1].b.seid = cl[c].seid
        /\ \A j \in 1..Len(trace) : trace[j].k # "send"
        /\ \E p \in pending : p.c = c /\ p.op = "a2dp_config" /\ p.id = cl[c].req_id

\* C22: a SBC or MPEG12 capability with its fields in their domains, turned
\* into a wire codec block as for a GetCapabilities response and rebuilt from
\* that block as for a SetConfiguration, is the same capability: same codec
\* type and same value in every field.
C22_MarshalRoundTrip ==
    (Len(trace) = 3 /\ trace[1].k = "cap" /\ trace[3].k = "rebuilt")
    => trace[3].b = trace[1].b

\* an MPEG12 capability with the mpf bit, every bitrate and every frequency
\* set has gone through the block and back, and the mpf bit is still set
C22_MpegRoundTripDone ==
    /\ Len(trace) = 3 /\ trace[1].k = "cap" /\ trace[3].k = "rebuilt"
    /\ trace[2].b.type = BT_A2DP_CODEC_MPEG12
    /\ trace[1].b.mpf = 1 /\ trace[1].b.bitrate = 65535 /\ trace[1].b.frequency = 63
    /\ trace[3].b.media_codec_type = A2DP_CODEC_MPEG12 /\ trace[3].b.mpf = 1

\* session c holds the lock of a media endpoint
HoldsMediaLock(c) == cl[c].sep # 0 /\ sepLock[cl[c].sep]

\* session c holds lock bits of the voice device: its record says locked on
\* the voice path, and the device has the bits of its lock mode
HoldsVoiceLock(c) == cl[c].type = "HEADSET" /\ HsLocked(cl[c].session) /\ cl[c].lock # {} /\ cl[c].lock \subseteq hsLock

\* C23: a session holds at most one lock: never a media endpoint lock and
\* the voice device lock at once, never two endpoint locks; an Open of a
\* session that holds a lock is rejected and the lock stays held.
C23_AtMostOneLock ==
    [][\A c \in Clients :
         /\ (Live(clients', c) /\ accepted' = 1)
            => /\ ~(HoldsMediaLock(c)' /\ HoldsVoiceLock(c)')
               /\ Cardinality({x \in MediaSeids : sepLock'[x]}) <= 1
         /\ (/\ Live(clients, c) /\ (HoldsMediaLock(c) \/ HoldsVoiceLock(c))
             /\ Handles(trace', c) /\ trace'[1].n = "BT_OPEN" /\ ub' = "none")
            => /\ \E j \in 1..Len(trace') : trace'[j].k = "send" /\ trace'[j].c = c /\ trace'[j].t = "ERROR"
               /\ sepLock' = sepLock /\ hsLock' = hsLock /\ cl'[c].sep = cl[c].sep]_vars

\* a session holds the lock of a media endpoint and, after an Open for the
\* voice seid that was accepted, the lock of the voice device
C23_MediaAndVoiceLock ==
    \E c \in Clients :
        /\ ub = "none" /\ Live(clients, c)
        /\ HoldsMediaLock(c) /\ HoldsVoiceLock(c)
        /\ Handles(trace, c) /\ trace[1].n = "BT_OPEN" /\ trace[1].b.seid = VoiceSeid
        /\ Replied(trace, c, "RESPONSE", "BT_OPEN", "")

\* the path start_open took for the Open just handled: the voice path takes
\* the device lock, the media path looks up and locks an endpoint
TookVoicePath(tr) == \E j \in 1..Len(tr) : tr[j].k = "hs_lock"

TookMediaPath(tr) == \E j \in 1..Len(tr) : tr[j].k = "sep_lock"

\* C24: an Open that reaches the locking step takes the voice path (device
\* lock) if its seid is above the media seid range and the media path
\* (endpoint lock) if it is at or below it, whatever the session did before.
C24_SeidRoutesOpen ==
    \A c \in Clients :
        (Handles(trace, c) /\ trace[1].n = "BT_OPEN" /\ ub = "none")
        => /\ TookVoicePath(trace) => trace[1].b.seid > BT_A2DP_SEID_RANGE
           /\ TookMediaPath(trace) => trace[1].b.seid <= BT_A2DP_SEID_RANGE

\* an Open for a media seid has taken the lock of the voice device and has
\* been answered with the Open response
C24_MediaSeidLockedVoice ==
    \E c \in Clients :
        /\ ub = "none" /\ Live(clients, c)
        /\ Handles(trace, c) /\ trace[1].n = "BT_OPEN"
        /\ trace[1].b.seid \in MediaSeids
        /\ TookVoicePath(trace) /\ hsLock # {}
        /\ Replied(trace, c, "RESPONSE", "BT_OPEN", "")

\* C25: the gateway never closes a transport fd: in Close, stream IDLE, error
\* completions, session destruction and shutdown the only descriptor a
\* handler closes is the socket of the session it destroys.
C25_TransportFdNeverClosed ==
    \A j \in 1..Len(trace) : trace[j].k = "close" => trace[j].t = "sock"

\* a voice session whose StartStream completion passed the fd of the SCO link
\* to unix_sendmsg_fd has been destroyed: its socket was closed while the
\* record held that fd
C25_DestroyedHoldingFd ==
    /\ ub = "none" /\ steps = 4 /\ trace # <<>>
    /\ trace[1].k \in {"hangup", "recv_error", "length_mismatch", "exit"}
    /\ \E j \in 1..Len(trace) : trace[j].k = "close" /\ trace[j].t = "sock" /\ trace[j].v = VoiceSeid

\* C26: in every reachable state a live session's stored request id is
\* non-zero only while the backend call that returned that id is still
\* outstanding; in particular the slot is empty once the completion of that
\* call has been delivered.
C26_RequestIdOnlyWhileOutstanding ==
    \A c \in Clients :
        (InClients(Cur, c) /\ cl[c].req_id # 0)
            => \E p \in pending : p.c = c /\ p.id = cl[c].req_id

\* the completion of a media resume has just been delivered successfully to
\* a live session, and the session still stores the id of that request
C26_CompletedIdStillStored ==
    /\ ub = "none" /\ trace # <<>>
    /\ trace[1].k = "complete" /\ trace[1].n = "a2dp_resume" /\ trace[1].t = "ok"
    /\ InClients(Cur, trace[1].c)
    /\ cl[trace[1].c].req_id = trace[1].v
    /\ \A p \in pending : p.id # trace[1].v

\* C27: the NewStream message emitted after a successful StartStream has type
\* INDICATION and name NewStream, on the media path and on the voice path.
C27_NewStreamIsIndication ==
    \A j \in 1..Len(trace) :
        (/\ trace[1].k = "complete" /\ trace[1].n \in {"a2dp_resume", "hs_resume"}
         /\ trace[j].k = "send" /\ trace[j].n = "BT_NEW_STREAM")
            => trace[j].t = "INDICATION"

\* a media resume has completed successfully: the StartStream response, the
\* NewStream message and the fd were sent, and NewStream went out as a RESPONSE
C27_MediaNewStreamIsResponse ==
    /\ ub = "none" /\ Len(trace) = 4
    /\ trace[1].k = "complete" /\ trace[1].n = "a2dp_resume" /\ trace[1].t = "ok"
    /\ trace[2].k = "send" /\ trace[2].t = "RESPONSE" /\ trace[2].n = "BT_START_STREAM"
    /\ trace[3].k = "send" /\ trace[3].t = "RESPONSE" /\ trace[3].n = "BT_NEW_STREAM"
    /\ trace[4].k = "sendfd"

\* C28: a stream-state subscription id obtained by a session is unsubscribed
\* at most once: no handler invokes avdtp_stream_remove_cb twice for the same
\* id of the same session.
C28_UnsubscribedAtMostOnce ==
    \A j \in 1..Len(trace) :
        trace[j].k = "remove_cb" => Times(trace, "remove_cb", trace[j].c, trace[j].v) <= 1

\* a disconnect of a configured media session: the subscription is removed,
\* the backend session is released, and the same id is removed once more
C28_RemovedAgainAfterRelease ==
    /\ ub = "none" /\ trace # <<>> /\ trace[1].k = "hangup"
    /\ \E i, j, k \in 1..Len(trace) :
         /\ i < j /\ j < k
         /\ trace[i].k = "remove_cb" /\ trace[i].c = trace[1].c
         /\ trace[j].k = "avdtp_unref" /\ trace[j].c = trace[1].c
         /\ trace[k].k = "remove_cb" /\ trace[k].c = trace[1].c /\ trace[k].v = trace[i].v

\* the sessions whose session slot holds a backend media session
Holders == {c \in Clients : InClients(Cur, c) /\ cl[c].session = "SESS"}

\* C29: the releases of the backend media session never exceed the
\* acquisitions, a live session holds exactly one reference while its session
\* slot is non-empty and none otherwise, and a destroyed session holds none.
C29_ReferencesBalanced ==
    /\ ub # "over_release"
    /\ sref = Cardinality(Holders)

\* the only session there was has been destroyed by a disconnect, and a
\* reference it acquired on the backend media session was never released
C29_DestroyedWithReference ==
    /\ ub = "none" /\ trace # <<>> /\ trace[1].k = "hangup"
    /\ accepted = 1 /\ \A c \in Clients : ~InClients(Cur, c)
    /\ sref = 1

====
